---- MODULE Spec2Model ----
(***************************************************************************)
(* Bring-up sequence, Wi-Fi event handler and watchdog-supervised main     *)
(* loop of main/app_main.cpp.  Time is counted in whole seconds.           *)
(***************************************************************************)
EXTENDS Integers, Sequences, FiniteSets, TLC

\* ---- bounds of the model ------------------------------------------------
MaxEvents == 2

\* ---- program constants (seconds) ----------------------------------------
WIFI_TIMEOUT_S == 10
WDT_TIMEOUT_S == 5
SUPERVISORY_PERIOD_S == 1

WIFI_CONNECTED_BIT == "BIT0"

NvsResults == {"ESP_OK", "ESP_ERR_NVS_NO_FREE_PAGES", "ESP_ERR_NVS_NEW_VERSION_FOUND", "ESP_FAIL"}
NvsCorrupt == {"ESP_ERR_NVS_NO_FREE_PAGES", "ESP_ERR_NVS_NEW_VERSION_FOUND"}
MountResults == {"ESP_OK", "ESP_FAIL"}
BtCalls == {"esp_bt_controller_init", "esp_bt_controller_enable", "esp_bluedroid_init", "esp_bluedroid_enable"}
LinkEvents == {"WIFI_EVENT_STA_START", "WIFI_EVENT_STA_DISCONNECTED", "IP_EVENT_STA_GOT_IP", "WIFI_EVENT_OTHER"}

VARIABLES
    pc,                 \* position of the main task in app_main
    stages,             \* boot stages attempted in this run, in order
    nvsRet1,            \* ret of the first nvs_flash_init()
    nvsRet2,            \* result of the nvs_flash_init() after the erase
    nvsLog,             \* calls made on the config store in this run
    lcdInit,            \* result of lcd.init(): "none" | "ok" | "fail"
    restartRequests,    \* esp_restart() calls in this run
    sdRet,              \* ret of esp_vfs_fat_sdmmc_mount
    mountCalls,         \* calls of esp_vfs_fat_sdmmc_mount in this run
    sdLog,              \* line logged by sdcard_init
    handlersRegistered, \* wifi_event_handler registered on the event loop
    eventBits,          \* bits set in wifi_event_group
    wifi_connected,
    connectCalls,       \* esp_wifi_connect() calls in this run
    eventsHandled,      \* link events handled in this run
    lastEvent,          \* last link event handled
    waitElapsed,        \* seconds spent so far in the pending xEventGroupWaitBits
    wifiTimeoutLogged,  \* "WiFi Timeout" logged by wifi_init
    bt_enabled,
    btEnableOk,         \* "none" | "ok" | "fail": did all four BT calls succeed
    ntpStarted,
    uiOps,              \* <<context, operation>> of the UI-engine calls made in this run
    tickTimerRunning,   \* esp_timer lv_tick started
    flushRegistered,    \* flush_cb registered with the UI engine
    renderTaskStarted,  \* lvgl_task created
    renderPc,           \* position of the render task in lvgl_task
    flushLog,           \* calls made by the latest invocation of flush_cb
    wdtArmed,           \* task watchdog initialised and main task subscribed
    wdtElapsed,         \* seconds since arming or since the last reset
    loopDelay,          \* seconds spent in the main loop's vTaskDelay
    mainStalled,        \* the main task no longer gets to run
    wdtResetBy          \* contexts that have called esp_task_wdt_reset()

vars == <<pc, stages, nvsRet1, nvsRet2, nvsLog, lcdInit, restartRequests,
          sdRet, mountCalls, sdLog, handlersRegistered, eventBits, wifi_connected,
          connectCalls, eventsHandled, lastEvent, waitElapsed, wifiTimeoutLogged,
          bt_enabled, btEnableOk, ntpStarted, uiOps, tickTimerRunning,
          flushRegistered, renderTaskStarted, renderPc, flushLog, wdtArmed, wdtElapsed, loopDelay,
          mainStalled, wdtResetBy>>

nvsVars == <<nvsRet1, nvsRet2, nvsLog>>
lcdVars == <<lcdInit, restartRequests>>
sdVars == <<sdRet, mountCalls, sdLog>>
wifiVars == <<handlersRegistered, eventBits, wifi_connected, connectCalls,
              eventsHandled, lastEvent, waitElapsed, wifiTimeoutLogged>>
btVars == <<bt_enabled, btEnableOk, ntpStarted>>
uiVars == <<uiOps, tickTimerRunning, flushRegistered, renderTaskStarted, renderPc, flushLog>>
wdtVars == <<wdtArmed, wdtElapsed, loopDelay, mainStalled, wdtResetBy>>

\* State of the device right after power-on or restart (statics zeroed).
BootState ==
    /\ pc = "nvs_init"
    /\ stages = <<>>
    /\ nvsRet1 = "none" /\ nvsRet2 = "none" /\ nvsLog = <<>>
    /\ lcdInit = "none" /\ restartRequests = 0
    /\ sdRet = "none" /\ mountCalls = 0 /\ sdLog = "none"
    /\ handlersRegistered = FALSE
    /\ eventBits = {}
    /\ wifi_connected = FALSE
    /\ connectCalls = 0 /\ eventsHandled = 0 /\ lastEvent = "none"
    /\ waitElapsed = 0 /\ wifiTimeoutLogged = FALSE
    /\ bt_enabled = FALSE /\ btEnableOk = "none" /\ ntpStarted = FALSE
    /\ uiOps = {} /\ tickTimerRunning = FALSE /\ flushRegistered = FALSE
    /\ renderTaskStarted = FALSE /\ renderPc = "none" /\ flushLog = <<>>
    /\ wdtArmed = FALSE /\ wdtElapsed = 0 /\ loopDelay = 0 /\ mainStalled = FALSE
    /\ wdtResetBy = {}

Init == BootState

\* The watchdog countdown has run out: the panic pre-empts every task.
WdtDue == wdtArmed /\ wdtElapsed >= WDT_TIMEOUT_S

\* The device is executing application code.
Alive == pc \notin {"restarting", "wdt_panic"} /\ ~WdtDue

\* The main task is scheduled.
MainRuns == Alive /\ ~mainStalled

\* ---- ConfigStore stage: app_main, nvs_flash_init / erase / init ---------

\* esp_err_t ret = nvs_flash_init();
NvsFlashInit ==
    /\ MainRuns /\ pc = "nvs_init"
    /\ \E r \in NvsResults :
          /\ nvsRet1' = r
          /\ pc' = IF r \in NvsCorrupt THEN "nvs_erase" ELSE "evgroup"
    /\ nvsLog' = Append(nvsLog, "init")
    /\ stages' = Append(stages, "ConfigStore")
    /\ UNCHANGED <<nvsRet2, lcdVars, sdVars, wifiVars, btVars, uiVars, wdtVars>>

\* nvs_flash_erase();
NvsFlashErase ==
    /\ MainRuns /\ pc = "nvs_erase"
    /\ nvsLog' = Append(nvsLog, "erase")
    /\ pc' = "nvs_reinit"
    /\ UNCHANGED <<stages, nvsRet1, nvsRet2, lcdVars, sdVars, wifiVars, btVars, uiVars, wdtVars>>

\* as NvsFlashReinit, but a store that is still corrupt is erased again
NvsFlashReinit_ErasesAgain ==
    /\ MainRuns /\ pc = "nvs_reinit"
    /\ \E r \in NvsResults :
          /\ nvsRet2' = r
          /\ pc' = IF r \in NvsCorrupt THEN "nvs_erase" ELSE "evgroup"
    /\ nvsLog' = Append(nvsLog, "init")
    /\ UNCHANGED <<stages, nvsRet1, lcdVars, sdVars, wifiVars, btVars, uiVars, wdtVars>>

\* nvs_flash_init(); after the erase: the result is discarded
NvsFlashReinit ==
    /\ MainRuns /\ pc = "nvs_reinit"
    /\ \E r \in NvsResults : nvsRet2' = r
    /\ nvsLog' = Append(nvsLog, "init")
    /\ pc' = "evgroup"
    /\ UNCHANGED <<stages, nvsRet1, lcdVars, sdVars, wifiVars, btVars, uiVars, wdtVars>>

\* as EventGroupCreate, but the lv_tick timer is started here, ahead of the display
EventGroupCreate_StartsTick ==
    /\ MainRuns /\ pc = "evgroup"
    /\ eventBits' = {}
    /\ tickTimerRunning' = TRUE
    /\ pc' = "lcd_init"
    /\ UNCHANGED <<stages, nvsVars, lcdVars, sdVars, handlersRegistered,
                   wifi_connected, connectCalls, eventsHandled, lastEvent,
                   waitElapsed, wifiTimeoutLogged, btVars, uiOps, flushRegistered,
                   renderTaskStarted, renderPc, flushLog, wdtVars>>

\* wifi_event_group = xEventGroupCreate();
EventGroupCreate ==
    /\ MainRuns /\ pc = "evgroup"
    /\ eventBits' = {}
    /\ pc' = "lcd_init"
    /\ UNCHANGED <<stages, nvsVars, lcdVars, sdVars, handlersRegistered,
                   wifi_connected, connectCalls, eventsHandled, lastEvent,
                   waitElapsed, wifiTimeoutLogged, btVars, uiVars, wdtVars>>

\* ---- Display stage: lvgl_driver_init ------------------------------------

\* as LcdInitFail, but esp_restart() returns to the caller
LcdInitFail_RestartReturns ==
    /\ lcdInit' = "fail"
    /\ restartRequests' = restartRequests + 1
    /\ pc' = "sd_init"

\* lcd.init() fails: esp_restart() is called and does not return
LcdInitFail ==
    /\ lcdInit' = "fail"
    /\ restartRequests' = restartRequests + 1
    /\ pc' = "restarting"

lvgl_driver_init ==
    /\ MainRuns /\ pc = "lcd_init"
    /\ stages' = Append(stages, "Display")
    /\ \/ /\ lcdInit' = "ok"
          /\ restartRequests' = restartRequests
          /\ pc' = "sd_init"
       \/ LcdInitFail
    /\ UNCHANGED <<nvsVars, sdVars, wifiVars, btVars, uiVars, wdtVars>>

\* ---- Storage stage: sdcard_init -----------------------------------------

\* as SdMountFailed, but the error aborts the boot (ESP_ERROR_CHECK style)
SdMountFailed_Aborts ==
    /\ sdLog' = "SD Fail"
    /\ pc' = "restarting"

\* as SdMountFailed, but the mount is attempted again
SdMountFailed_Retries ==
    /\ sdLog' = "SD Fail"
    /\ pc' = "sd_init"

\* the mount returned an error: log it and return
SdMountFailed ==
    /\ sdLog' = "SD Fail"
    /\ pc' = "wifi_init"

sdcard_init ==
    /\ MainRuns /\ pc = "sd_init"
    /\ stages' = IF mountCalls = 0 THEN Append(stages, "Storage") ELSE stages
    /\ mountCalls' = mountCalls + 1
    /\ \E r \in MountResults :
          /\ sdRet' = r
          /\ IF r = "ESP_OK"
                THEN sdLog' = "SD OK" /\ pc' = "wifi_init"
                ELSE SdMountFailed
    /\ UNCHANGED <<nvsVars, lcdVars, wifiVars, btVars, uiVars, wdtVars>>

\* ---- Connectivity stage: wifi_init and wifi_event_handler ---------------

\* registers wifi_event_handler, configures the station, esp_wifi_start()
wifi_init ==
    /\ MainRuns /\ pc = "wifi_init"
    /\ stages' = Append(stages, "Connectivity")
    /\ handlersRegistered' = TRUE
    /\ waitElapsed' = 0
    /\ pc' = "wifi_wait"
    /\ UNCHANGED <<nvsVars, lcdVars, sdVars, eventBits, wifi_connected,
                   connectCalls, eventsHandled, lastEvent, wifiTimeoutLogged,
                   btVars, uiVars, wdtVars>>

\* as WaitBitsReturn, but the wait clears the bit on exit (xClearOnExit = pdTRUE)
WaitBitsReturn_ClearsOnExit ==
    /\ MainRuns /\ pc = "wifi_wait"
    /\ WIFI_CONNECTED_BIT \in eventBits
    /\ eventBits' = eventBits \ {WIFI_CONNECTED_BIT}
    /\ waitElapsed' = 0
    /\ pc' = "bt_init"
    /\ UNCHANGED <<stages, nvsVars, lcdVars, sdVars, handlersRegistered,
                   wifi_connected, connectCalls, eventsHandled,
                   lastEvent, wifiTimeoutLogged, btVars, uiVars, wdtVars>>

\* xEventGroupWaitBits(..., xClearOnExit = pdFALSE, ...) returns because
\* WIFI_CONNECTED_BIT is set
WaitBitsReturn ==
    /\ MainRuns /\ pc = "wifi_wait"
    /\ WIFI_CONNECTED_BIT \in eventBits
    /\ waitElapsed' = 0
    /\ pc' = "bt_init"
    /\ UNCHANGED <<stages, nvsVars, lcdVars, sdVars, handlersRegistered,
                   eventBits, wifi_connected, connectCalls, eventsHandled,
                   lastEvent, wifiTimeoutLogged, btVars, uiVars, wdtVars>>

\* as WaitExpired, but the wait has no timeout (portMAX_DELAY)
WaitExpired_Never == FALSE

\* the timeout of the wait has elapsed with the bit still clear
WaitExpired == waitElapsed >= WIFI_TIMEOUT_S

\* as WaitBitsTimeout, but the timeout makes wifi_init start over
WaitBitsTimeout_RetriesWifi ==
    /\ MainRuns /\ pc = "wifi_wait"
    /\ WIFI_CONNECTED_BIT \notin eventBits
    /\ WaitExpired
    /\ wifiTimeoutLogged' = TRUE
    /\ waitElapsed' = 0
    /\ pc' = "wifi_init"
    /\ UNCHANGED <<stages, nvsVars, lcdVars, sdVars, handlersRegistered,
                   eventBits, wifi_connected, connectCalls, eventsHandled,
                   lastEvent, btVars, uiVars, wdtVars>>

\* as WaitBitsTimeout, but the timeout also unregisters the event handler
WaitBitsTimeout_StopsWifi ==
    /\ MainRuns /\ pc = "wifi_wait"
    /\ WIFI_CONNECTED_BIT \notin eventBits
    /\ WaitExpired
    /\ wifiTimeoutLogged' = TRUE
    /\ handlersRegistered' = FALSE
    /\ waitElapsed' = 0
    /\ pc' = "bt_init"
    /\ UNCHANGED <<stages, nvsVars, lcdVars, sdVars,
                   eventBits, wifi_connected, connectCalls, eventsHandled,
                   lastEvent, btVars, uiVars, wdtVars>>

\* xEventGroupWaitBits returns 0 after the timeout: "WiFi Timeout" is logged
WaitBitsTimeout ==
    /\ MainRuns /\ pc = "wifi_wait"
    /\ WIFI_CONNECTED_BIT \notin eventBits
    /\ WaitExpired
    /\ wifiTimeoutLogged' = TRUE
    /\ waitElapsed' = 0
    /\ pc' = "bt_init"
    /\ UNCHANGED <<stages, nvsVars, lcdVars, sdVars, handlersRegistered,
                   eventBits, wifi_connected, connectCalls, eventsHandled,
                   lastEvent, btVars, uiVars, wdtVars>>

\* as HandlerEffect, but GOT_IP sets the flag without setting the event bit
HandlerEffect_NoSignal(ev) ==
    IF ev = "WIFI_EVENT_STA_START"
       THEN /\ connectCalls' = connectCalls + 1
            /\ UNCHANGED <<wifi_connected, eventBits>>
    ELSE IF ev = "WIFI_EVENT_STA_DISCONNECTED"
       THEN /\ wifi_connected' = FALSE
            /\ connectCalls' = connectCalls + 1
            /\ UNCHANGED eventBits
    ELSE IF ev = "IP_EVENT_STA_GOT_IP"
       THEN /\ wifi_connected' = TRUE
            /\ UNCHANGED <<connectCalls, eventBits>>
    ELSE UNCHANGED <<wifi_connected, eventBits, connectCalls>>

\* as HandlerEffect, but a disconnect only clears the flag (no reconnect)
HandlerEffect_NoRetry(ev) ==
    IF ev = "WIFI_EVENT_STA_START"
       THEN /\ connectCalls' = connectCalls + 1
            /\ UNCHANGED <<wifi_connected, eventBits>>
    ELSE IF ev = "WIFI_EVENT_STA_DISCONNECTED"
       THEN /\ wifi_connected' = FALSE
            /\ UNCHANGED <<connectCalls, eventBits>>
    ELSE IF ev = "IP_EVENT_STA_GOT_IP"
       THEN /\ wifi_connected' = TRUE
            /\ eventBits' = eventBits \cup {WIFI_CONNECTED_BIT}
            /\ UNCHANGED connectCalls
    ELSE UNCHANGED <<wifi_connected, eventBits, connectCalls>>

\* the handler's effect on wifi_connected, the event group and connect()
HandlerEffect(ev) ==
    IF ev = "WIFI_EVENT_STA_START"
       THEN /\ connectCalls' = connectCalls + 1
            /\ UNCHANGED <<wifi_connected, eventBits>>
    ELSE IF ev = "WIFI_EVENT_STA_DISCONNECTED"
       THEN /\ wifi_connected' = FALSE
            /\ connectCalls' = connectCalls + 1
            /\ UNCHANGED eventBits
    ELSE IF ev = "IP_EVENT_STA_GOT_IP"
       THEN /\ wifi_connected' = TRUE
            /\ eventBits' = eventBits \cup {WIFI_CONNECTED_BIT}
            /\ UNCHANGED connectCalls
    ELSE UNCHANGED <<wifi_connected, eventBits, connectCalls>>

\* one link event delivered by the event loop and handled to completion
wifi_event_handler ==
    /\ Alive /\ handlersRegistered
    /\ eventsHandled < MaxEvents
    /\ \E ev \in LinkEvents :
          /\ HandlerEffect(ev)
          /\ lastEvent' = ev
    /\ eventsHandled' = eventsHandled + 1
    /\ UNCHANGED <<pc, stages, nvsVars, lcdVars, sdVars, handlersRegistered,
                   waitElapsed, wifiTimeoutLogged, btVars, uiVars, wdtVars>>

\* ---- Pairing and TimeSync stages: bt_init, ntp_init ---------------------

\* the four enable calls; their results are discarded
BtEnabledAfter(rets) == TRUE

bt_init ==
    /\ MainRuns /\ pc = "bt_init"
    /\ stages' = Append(stages, "Pairing")
    /\ \E rets \in [BtCalls -> BOOLEAN] :
          /\ btEnableOk' = IF \A c \in BtCalls : rets[c] THEN "ok" ELSE "fail"
          /\ bt_enabled' = BtEnabledAfter(rets)
    /\ pc' = "ntp_init"
    /\ UNCHANGED <<nvsVars, lcdVars, sdVars, wifiVars, ntpStarted, uiVars, wdtVars>>

ntp_init ==
    /\ MainRuns /\ pc = "ntp_init"
    /\ stages' = Append(stages, "TimeSync")
    /\ ntpStarted' = TRUE
    /\ pc' = "lv_init"
    /\ UNCHANGED <<nvsVars, lcdVars, sdVars, wifiVars, bt_enabled, btEnableOk, uiVars, wdtVars>>

\* ---- UI bring-up: lv_init, tick timer, create_ui, render task -----------

\* the UI-engine calls of the main task: lv_init, then create_ui's driver
\* registration, widget creation and status-bar timer creation
MainUICalls ==
    {<<"main", "lv_init">>, <<"main", "lv_disp_drv_register">>,
     <<"main", "lv_obj_create">>, <<"main", "lv_timer_create">>}

lv_init ==
    /\ MainRuns /\ pc = "lv_init"
    /\ uiOps' = uiOps \cup {<<"main", "lv_init">>}
    /\ pc' = "tick_timer"
    /\ UNCHANGED <<stages, nvsVars, lcdVars, sdVars, wifiVars, btVars,
                   tickTimerRunning, flushRegistered, renderTaskStarted,
                   renderPc, flushLog, wdtVars>>

\* as TickTimerStart, but the render task is created here, before create_ui
TickTimerStart_CreatesTask ==
    /\ MainRuns /\ pc = "tick_timer"
    /\ tickTimerRunning' = TRUE
    /\ renderTaskStarted' = TRUE
    /\ renderPc' = "ready"
    /\ pc' = "create_ui"
    /\ UNCHANGED <<stages, nvsVars, lcdVars, sdVars, wifiVars, btVars,
                   uiOps, flushRegistered, flushLog, wdtVars>>

\* esp_timer_create + esp_timer_start_periodic(lv_timer, LVGL_TICK_MS * 1000)
TickTimerStart ==
    /\ MainRuns /\ pc = "tick_timer"
    /\ tickTimerRunning' = TRUE
    /\ pc' = "create_ui"
    /\ UNCHANGED <<stages, nvsVars, lcdVars, sdVars, wifiVars, btVars,
                   uiOps, flushRegistered, renderTaskStarted, renderPc, flushLog, wdtVars>>

\* registers the display driver with its flush_cb and builds the widgets
create_ui ==
    /\ MainRuns /\ pc = "create_ui"
    /\ flushRegistered' = TRUE
    /\ uiOps' = uiOps \cup (MainUICalls \ {<<"main", "lv_init">>})
    /\ pc' = "task_create"
    /\ UNCHANGED <<stages, nvsVars, lcdVars, sdVars, wifiVars, btVars,
                   tickTimerRunning, renderTaskStarted, renderPc, flushLog, wdtVars>>

\* xTaskCreate(lvgl_task, ..., 4, NULL)
TaskCreate ==
    /\ MainRuns /\ pc = "task_create"
    /\ renderTaskStarted' = TRUE
    /\ renderPc' = "ready"
    /\ stages' = Append(stages, "UIReady")
    /\ pc' = "wdt_arm"
    /\ UNCHANGED <<nvsVars, lcdVars, sdVars, wifiVars, btVars,
                   uiOps, tickTimerRunning, flushRegistered, flushLog, wdtVars>>

\* esp_timer callback: lv_tick_inc(LVGL_TICK_MS)
lv_tick_handler ==
    /\ Alive /\ tickTimerRunning
    /\ uiOps' = uiOps \cup {<<"timer", "lv_tick_inc">>}
    /\ UNCHANGED <<pc, stages, nvsVars, lcdVars, sdVars, wifiVars, btVars,
                   tickTimerRunning, flushRegistered, renderTaskStarted,
                   renderPc, flushLog, wdtVars>>

\* as lvgl_task, but the render task injects the tick itself before processing
lvgl_task_InjectsTick ==
    /\ Alive /\ renderPc = "ready"
    /\ uiOps' = uiOps \cup {<<"render", "lv_tick_inc">>, <<"render", "lv_task_handler">>}
    /\ renderPc' = "handling"
    /\ UNCHANGED <<pc, stages, nvsVars, lcdVars, sdVars, wifiVars, btVars,
                   tickTimerRunning, flushRegistered, renderTaskStarted, flushLog, wdtVars>>

\* as lvgl_task, but the render task also feeds the task watchdog
lvgl_task_FeedsWatchdog ==
    /\ Alive /\ renderPc = "ready"
    /\ uiOps' = uiOps \cup {<<"render", "lv_task_handler">>}
    /\ renderPc' = "handling"
    /\ wdtElapsed' = 0
    /\ wdtResetBy' = wdtResetBy \cup {"render"}
    /\ UNCHANGED <<pc, stages, nvsVars, lcdVars, sdVars, wifiVars, btVars,
                   tickTimerRunning, flushRegistered, renderTaskStarted, flushLog,
                   wdtArmed, loopDelay, mainStalled>>

\* a period of the render task begins: the while (1) body calls lv_task_handler()
lvgl_task ==
    /\ Alive /\ renderPc = "ready"
    /\ uiOps' = uiOps \cup {<<"render", "lv_task_handler">>}
    /\ renderPc' = "handling"
    /\ UNCHANGED <<pc, stages, nvsVars, lcdVars, sdVars, wifiVars, btVars,
                   tickTimerRunning, flushRegistered, renderTaskStarted, flushLog, wdtVars>>

\* lv_task_handler invokes flush_cb, which runs lcd.pushColors(...) to the end
FlushPush ==
    /\ Alive /\ renderPc = "handling" /\ flushRegistered
    /\ uiOps' = uiOps \cup {<<"render", "flush_cb">>}
    /\ flushLog' = <<"pushColors">>
    /\ renderPc' = "pushed"
    /\ UNCHANGED <<pc, stages, nvsVars, lcdVars, sdVars, wifiVars, btVars,
                   tickTimerRunning, flushRegistered, renderTaskStarted, wdtVars>>

\* as FlushReady, but flush_cb returns without lv_disp_flush_ready
FlushReady_NoAck ==
    /\ Alive /\ renderPc = "pushed"
    /\ renderPc' = "handling"
    /\ UNCHANGED <<pc, stages, nvsVars, lcdVars, sdVars, wifiVars, btVars, uiOps,
                   tickTimerRunning, flushRegistered, renderTaskStarted, flushLog, wdtVars>>

\* flush_cb calls lv_disp_flush_ready(drv) and returns into lv_task_handler
FlushReady ==
    /\ Alive /\ renderPc = "pushed"
    /\ flushLog' = Append(flushLog, "lv_disp_flush_ready")
    /\ renderPc' = "handling"
    /\ UNCHANGED <<pc, stages, nvsVars, lcdVars, sdVars, wifiVars, btVars, uiOps,
                   tickTimerRunning, flushRegistered, renderTaskStarted, wdtVars>>

\* lv_task_handler runs the 1 s lv_timer made by create_ui: update_status_bar()
update_status_bar ==
    /\ Alive /\ renderPc = "handling" /\ flushRegistered
    /\ uiOps' = uiOps \cup {<<"render", "update_status_bar">>}
    /\ UNCHANGED <<pc, stages, nvsVars, lcdVars, sdVars, wifiVars, btVars,
                   tickTimerRunning, flushRegistered, renderTaskStarted,
                   renderPc, flushLog, wdtVars>>

\* lv_task_handler returns; vTaskDelay(pdMS_TO_TICKS(LVGL_TICK_MS)) until the next period
RenderDelay ==
    /\ Alive /\ renderPc = "handling"
    /\ renderPc' = "ready"
    /\ UNCHANGED <<pc, stages, nvsVars, lcdVars, sdVars, wifiVars, btVars, uiOps,
                   tickTimerRunning, flushRegistered, renderTaskStarted, flushLog, wdtVars>>

\* lv_task_handler never returns and the render task stays blocked in it
RenderBlock ==
    /\ Alive /\ renderPc = "handling"
    /\ renderPc' = "blocked"
    /\ UNCHANGED <<pc, stages, nvsVars, lcdVars, sdVars, wifiVars, btVars, uiOps,
                   tickTimerRunning, flushRegistered, renderTaskStarted, flushLog, wdtVars>>

\* ---- Watchdog and supervisory loop --------------------------------------

\* esp_task_wdt_init(5, true); esp_task_wdt_add(NULL);
WdtArm ==
    /\ MainRuns /\ pc = "wdt_arm"
    /\ wdtArmed' = TRUE
    /\ wdtElapsed' = 0
    /\ loopDelay' = 0
    /\ pc' = "loop_delay"
    /\ UNCHANGED <<stages, nvsVars, lcdVars, sdVars, wifiVars, btVars, uiVars,
                   mainStalled, wdtResetBy>>

\* as LoopWake, but the loop re-samples the pairing flag on every pass
LoopWake_ResamplesFlags ==
    /\ MainRuns /\ pc = "loop_delay"
    /\ loopDelay >= SUPERVISORY_PERIOD_S
    /\ bt_enabled' = FALSE
    /\ pc' = "wdt_reset"
    /\ UNCHANGED <<stages, nvsVars, lcdVars, sdVars, wifiVars, btEnableOk, ntpStarted,
                   uiVars, wdtVars>>

\* vTaskDelay(pdMS_TO_TICKS(1000)) returns
LoopWake ==
    /\ MainRuns /\ pc = "loop_delay"
    /\ loopDelay >= SUPERVISORY_PERIOD_S
    /\ pc' = "wdt_reset"
    /\ UNCHANGED <<stages, nvsVars, lcdVars, sdVars, wifiVars, btVars, uiVars, wdtVars>>

\* as WdtReset, but the loop iterates without feeding the watchdog
WdtReset_NoFeed ==
    /\ MainRuns /\ pc = "wdt_reset"
    /\ loopDelay' = 0
    /\ pc' = "loop_delay"
    /\ UNCHANGED <<stages, nvsVars, lcdVars, sdVars, wifiVars, btVars, uiVars,
                   wdtArmed, wdtElapsed, mainStalled, wdtResetBy>>

\* esp_task_wdt_reset(); then back to the top of while (1)
WdtReset ==
    /\ MainRuns /\ pc = "wdt_reset"
    /\ wdtElapsed' = 0
    /\ wdtResetBy' = wdtResetBy \cup {"main"}
    /\ loopDelay' = 0
    /\ pc' = "loop_delay"
    /\ UNCHANGED <<stages, nvsVars, lcdVars, sdVars, wifiVars, btVars, uiVars,
                   wdtArmed, mainStalled>>

\* the priority-4 render task spins inside lv_task_handler without yielding:
\* the main task is starved for good
Stall ==
    /\ Alive /\ renderPc = "handling" /\ ~mainStalled
    /\ renderPc' = "spin"
    /\ mainStalled' = TRUE
    /\ UNCHANGED <<pc, stages, nvsVars, lcdVars, sdVars, wifiVars, btVars, uiOps,
                   tickTimerRunning, flushRegistered, renderTaskStarted, flushLog,
                   wdtArmed, wdtElapsed, loopDelay, wdtResetBy>>

\* one second passes; a timeout that is due is served before the next second
Tick ==
    /\ Alive
    /\ \/ /\ pc = "wifi_wait"
          /\ WIFI_CONNECTED_BIT \notin eventBits
          /\ ~WaitExpired
          /\ waitElapsed' = waitElapsed + 1
          /\ UNCHANGED <<wdtElapsed, loopDelay>>
       \/ /\ wdtArmed
          /\ mainStalled \/ (pc = "loop_delay" /\ loopDelay < SUPERVISORY_PERIOD_S)
          /\ wdtElapsed' = wdtElapsed + 1
          /\ loopDelay' = IF pc = "loop_delay" /\ loopDelay < SUPERVISORY_PERIOD_S
                             THEN loopDelay + 1 ELSE loopDelay
          /\ UNCHANGED waitElapsed
    /\ UNCHANGED <<pc, stages, nvsVars, lcdVars, sdVars, handlersRegistered,
                   eventBits, wifi_connected, connectCalls, eventsHandled, lastEvent,
                   wifiTimeoutLogged, btVars, uiVars, wdtArmed, mainStalled, wdtResetBy>>

\* the task watchdog times out: panic and hard reset
WdtExpire ==
    /\ pc \notin {"restarting", "wdt_panic"}
    /\ WdtDue
    /\ pc' = "wdt_panic"
    /\ UNCHANGED <<stages, nvsVars, lcdVars, sdVars, wifiVars, btVars, uiVars, wdtVars>>

\* the device comes back up after esp_restart() or the watchdog reset:
\* a new boot run starts from the power-on state
Reboot ==
    /\ pc \in {"restarting", "wdt_panic"}
    /\ pc' = "nvs_init"
    /\ stages' = <<>>
    /\ nvsRet1' = "none" /\ nvsRet2' = "none" /\ nvsLog' = <<>>
    /\ lcdInit' = "none" /\ restartRequests' = 0
    /\ sdRet' = "none" /\ mountCalls' = 0 /\ sdLog' = "none"
    /\ handlersRegistered' = FALSE
    /\ eventBits' = {}
    /\ wifi_connected' = FALSE
    /\ connectCalls' = 0 /\ eventsHandled' = 0 /\ lastEvent' = "none"
    /\ waitElapsed' = 0 /\ wifiTimeoutLogged' = FALSE
    /\ bt_enabled' = FALSE /\ btEnableOk' = "none" /\ ntpStarted' = FALSE
    /\ uiOps' = {} /\ tickTimerRunning' = FALSE /\ flushRegistered' = FALSE
    /\ renderTaskStarted' = FALSE /\ renderPc' = "none" /\ flushLog' = <<>>
    /\ wdtArmed' = FALSE /\ wdtElapsed' = 0 /\ loopDelay' = 0 /\ mainStalled' = FALSE
    /\ wdtResetBy' = {}

MainStep ==
    \/ NvsFlashInit \/ NvsFlashErase \/ NvsFlashReinit \/ EventGroupCreate
    \/ lvgl_driver_init \/ sdcard_init \/ wifi_init
    \/ WaitBitsReturn \/ WaitBitsTimeout
    \/ bt_init \/ ntp_init
    \/ lv_init \/ TickTimerStart \/ create_ui \/ TaskCreate
    \/ WdtArm \/ LoopWake \/ WdtReset

Next ==
    \/ NvsFlashInit \/ NvsFlashErase \/ NvsFlashReinit \/ EventGroupCreate
    \/ lvgl_driver_init \/ sdcard_init \/ wifi_init
    \/ WaitBitsReturn \/ WaitBitsTimeout
    \/ bt_init \/ ntp_init
    \/ lv_init \/ TickTimerStart \/ create_ui \/ TaskCreate
    \/ WdtArm \/ LoopWake \/ WdtReset
    \/ wifi_event_handler \/ lv_tick_handler
    \/ lvgl_task \/ FlushPush \/ FlushReady \/ update_status_bar
    \/ RenderDelay \/ RenderBlock
    \/ Stall \/ Tick \/ WdtExpire \/ Reboot

Spec == Init /\ [][Next]_vars

\* The main task runs whenever it can, time passes, a due watchdog fires.
FairSpec == Spec /\ WF_vars(MainStep) /\ WF_vars(Tick) /\ WF_vars(WdtExpire)

TypeOK ==
    /\ pc \in {"nvs_init", "nvs_erase", "nvs_reinit", "evgroup", "lcd_init", "sd_init",
              "wifi_init", "wifi_wait", "bt_init", "ntp_init", "lv_init", "tick_timer",
              "create_ui", "task_create", "wdt_arm", "loop_delay", "wdt_reset",
              "restarting", "wdt_panic"}
    /\ nvsRet1 \in NvsResults \cup {"none"}
    /\ nvsRet2 \in NvsResults \cup {"none"}
    /\ lcdInit \in {"none", "ok", "fail"}
    /\ sdRet \in MountResults \cup {"none"}
    /\ eventBits \subseteq {WIFI_CONNECTED_BIT}
    /\ wifi_connected \in BOOLEAN /\ bt_enabled \in BOOLEAN
    /\ connectCalls \in 0..MaxEvents /\ eventsHandled \in 0..MaxEvents
    /\ waitElapsed \in 0..WIFI_TIMEOUT_S
    /\ wdtElapsed \in 0..WDT_TIMEOUT_S
    /\ loopDelay \in 0..SUPERVISORY_PERIOD_S
    /\ renderPc \in {"none", "ready", "handling", "pushed", "blocked", "spin"}
    /\ mainStalled <=> renderPc = "spin"

\* ---- Readings of the specification's vocabulary -------------------------

\* the UIReady stage: UI created and render task started
UIReady == flushRegistered /\ renderTaskStarted

\* the connectivity state, read off wifi_connected and the connect attempts
ConnState ==
    IF wifi_connected THEN "Connected"
    ELSE IF connectCalls > 0 THEN "Connecting"
    ELSE "Disconnected"

\* storage readiness as sdcard_init reports it
storageReady == sdLog = "SD OK"

\* the step is the handling of link event ev
Handles(ev) == eventsHandled' = eventsHandled + 1 /\ lastEvent' = ev

\* ---- Properties ----------------------------------------------------------

\* C1: in a boot run in which lcd.init() fails, exactly one esp_restart() is
\* requested, the run ends there, and no UI-engine operation is invoked.
C1_DisplayFailureRestarts ==
    lcdInit = "fail" => (pc = "restarting" /\ restartRequests = 1 /\ uiOps = {})

C1_Witness == lcdInit = "fail" /\ restartRequests = 1 /\ pc = "restarting"

\* C2: whatever the outcomes of the other stages, the boot run reaches
\* UIReady if and only if display init succeeded.
C2_UIReadyIffDisplayOk ==
    /\ [](UIReady => lcdInit = "ok")
    /\ ((lcdInit = "ok") ~> UIReady)

C2_Witness ==
    /\ UIReady /\ lcdInit = "ok"
    /\ nvsRet2 = "ESP_FAIL" /\ sdRet = "ESP_FAIL" /\ wifiTimeoutLogged /\ btEnableOk = "fail"

\* C3: a Disconnected event handled while Connecting or Connected issues
\* exactly one connect() and leaves the state Connecting.
C3_DisconnectRetriesOnce ==
    [][(Handles("WIFI_EVENT_STA_DISCONNECTED") /\ ConnState \in {"Connecting", "Connected"})
          => (connectCalls' = connectCalls + 1 /\ ConnState' = "Connecting")]_vars

C3_Witness ==
    /\ lastEvent = "WIFI_EVENT_STA_DISCONNECTED" /\ eventsHandled = 2
    /\ connectCalls = 2 /\ ~wifi_connected

\* C4: an IPAcquired event handled while Disconnected changes neither the
\* connected flag nor the event group (the waiter is not signalled).
C4_GotIpIgnoredWhenDisconnected ==
    [][(Handles("IP_EVENT_STA_GOT_IP") /\ ConnState = "Disconnected")
          => UNCHANGED <<wifi_connected, eventBits>>]_vars

\* C5: when the first init reports corruption and the re-init after the
\* erase fails too, no stage after ConfigStore is attempted.
C5_ReinitFailureAbortsBoot ==
    (nvsRet1 \in NvsCorrupt /\ nvsRet2 \in NvsResults \ {"ESP_OK"})
        => stages = <<"ConfigStore">>

\* C6: the config store is erased at most once per run: init, erase, init
\* when the first init reports corruption, a single init otherwise.
C6_AtMostOneErase ==
    /\ Cardinality({i \in DOMAIN nvsLog : nvsLog[i] = "erase"}) <= 1
    /\ pc \notin {"nvs_init", "nvs_erase", "nvs_reinit"} =>
          nvsLog = IF nvsRet1 \in NvsCorrupt THEN <<"init", "erase", "init">>
                                             ELSE <<"init">>

C6_Witness ==
    /\ nvsRet1 \in NvsCorrupt /\ nvsRet2 \in NvsCorrupt
    /\ nvsLog = <<"init", "erase", "init">> /\ lcdInit = "ok"

\* C7: after a failed mount storageReady is false, the mount was called
\* once, and the stage that follows Storage is Connectivity.
C7_MountFailureContinues ==
    sdRet = "ESP_FAIL" =>
        /\ ~storageReady
        /\ mountCalls = 1
        /\ pc # "sd_init"
        /\ Len(stages) >= 3 /\ stages[3] = "Storage"
        /\ Len(stages) = 3 => pc = "wifi_init"
        /\ Len(stages) > 3 => stages[4] = "Connectivity"

C7_Witness ==
    /\ sdRet = "ESP_FAIL" /\ mountCalls = 1 /\ ~storageReady
    /\ Len(stages) = 4 /\ stages[4] = "Connectivity"

\* C8: the bounded wait of the Connectivity stage ends, no later than the
\* timeout and only on the connected bit or the timeout, and boot goes on
\* to the Pairing stage.
C8_ConnectivityStageReturns ==
    /\ [][(pc = "wifi_wait" /\ pc' # "wifi_wait")
             => /\ pc' = "bt_init"
                /\ WIFI_CONNECTED_BIT \in eventBits \/ waitElapsed = WIFI_TIMEOUT_S]_vars
    /\ [](pc = "wifi_wait" => waitElapsed <= WIFI_TIMEOUT_S)
    /\ ((pc = "wifi_wait") ~> (pc = "bt_init"))

C8_Witness ==
    /\ pc = "bt_init" /\ wifiTimeoutLogged /\ WIFI_CONNECTED_BIT \notin eventBits
    /\ lastEvent = "WIFI_EVENT_STA_DISCONNECTED" /\ eventsHandled = MaxEvents

\* C9: bt_enabled is true only if every enable call succeeded; after a
\* failed enable boot still continues with TimeSync.
C9_PairingFlagFollowsEnable ==
    /\ bt_enabled => btEnableOk = "ok"
    /\ (btEnableOk = "fail" /\ Len(stages) >= 6) => stages[6] = "TimeSync"

\* C10: while the main loop runs, the watchdog never fires; once the loop
\* has stopped, the watchdog fires when 5 s have passed since the last
\* reset (or the arming), not earlier, and it does fire.
C10_WatchdogTiming ==
    /\ []((wdtArmed /\ ~mainStalled) => (pc # "wdt_panic" /\ wdtElapsed <= SUPERVISORY_PERIOD_S))
    /\ [](pc = "wdt_panic" => wdtElapsed = WDT_TIMEOUT_S)
    /\ [](wdtElapsed <= WDT_TIMEOUT_S)
    /\ ((wdtArmed /\ mainStalled) ~> (pc = "wdt_panic"))

C10_Witness ==
    pc = "wdt_panic" /\ wdtElapsed = WDT_TIMEOUT_S /\ "main" \in wdtResetBy

\* the order in which app_main attempts the stages
StageOrder ==
    <<"ConfigStore", "Display", "Storage", "Connectivity", "Pairing", "TimeSync", "UIReady">>

\* the stage log grows by the next stage of StageOrder
NextStageAttempted ==
    /\ Len(stages) < Len(StageOrder)
    /\ stages' = Append(stages, StageOrder[Len(stages) + 1])

\* boot has completed and the main task is in its while (1)
BootDone == pc \in {"loop_delay", "wdt_reset"}

\* reads of the wireless credentials from the config store in this run
CredentialReads == Cardinality({i \in DOMAIN nvsLog : nvsLog[i] = "get"})

\* the step feeds the armed watchdog
FeedsWatchdog == wdtArmed /\ wdtArmed' /\ wdtElapsed' < wdtElapsed

\* C11: only the main loop feeds the watchdog, once after each full
\* supervisory delay; the render task, the tick callback and the link-event
\* handler never do.
C11_OnlyLoopFeedsWatchdog ==
    /\ [](wdtResetBy \subseteq {"main"})
    /\ [][(FeedsWatchdog \/ (wdtResetBy' # wdtResetBy /\ wdtResetBy' # {}))
             => /\ pc = "wdt_reset" /\ pc' = "loop_delay"
                /\ loopDelay = SUPERVISORY_PERIOD_S
                /\ UNCHANGED <<renderPc, uiOps, eventsHandled>>]_vars

C11_Witness ==
    /\ wdtResetBy = {"main"} /\ pc = "loop_delay"
    /\ <<"render", "flush_cb">> \in uiOps /\ <<"timer", "lv_tick_inc">> \in uiOps
    /\ eventsHandled > 0

\* C12: once the render task or the main loop hangs, the watchdog is fed
\* no more (so that the hard reset follows within one timeout).
C12_HangStopsFeeding ==
    [][(renderPc \in {"blocked", "spin"} \/ mainStalled) => ~FeedsWatchdog]_vars

\* C13: while display init has not succeeded, the tick timer is not running,
\* no flush callback is registered, and no tick or flush has reached the UI
\* engine.
C13_NoTickOrFlushBeforeDisplay ==
    lcdInit # "ok" =>
        /\ ~tickTimerRunning /\ ~flushRegistered
        /\ \A c \in uiOps : c[2] \notin {"lv_tick_inc", "flush_cb"}

C13_Witness ==
    /\ lcdInit = "ok" /\ tickTimerRunning /\ flushRegistered
    /\ <<"timer", "lv_tick_inc">> \in uiOps /\ <<"render", "flush_cb">> \in uiOps

\* C14: an invocation of flush_cb pushes the pixels and then acknowledges
\* exactly once before it returns: outside the callback the latest
\* invocation is push followed by one ack, inside it the push came first.
C14_FlushAcknowledged ==
    /\ renderPc = "pushed" => flushLog = <<"pushColors">>
    /\ (renderPc # "pushed" /\ flushLog # <<>>)
          => flushLog = <<"pushColors", "lv_disp_flush_ready">>

C14_Witness ==
    renderPc = "ready" /\ flushLog = <<"pushColors", "lv_disp_flush_ready">>

\* C15 (as stated): stages are attempted in order, each at most once, and
\* the stage log starts over only through the restart of a Display failure.
C15_OnlyDisplayFailureRestarts ==
    [][stages' # stages
          => (NextStageAttempted \/ (stages' = <<>> /\ lcdInit = "fail"))]_vars

\* C15 (amended): stages are attempted in order, each at most once; the
\* sequence starts over only through a device restart, either the one a
\* Display failure forces or the watchdog's hard reset, and the latter only
\* after all seven stages.
C15_StagesInOrder ==
    /\ [](Len(stages) <= Len(StageOrder) /\ stages = SubSeq(StageOrder, 1, Len(stages)))
    /\ [](pc = "wdt_panic" => stages = StageOrder)
    /\ [][stages' # stages
             => \/ NextStageAttempted
                \/ stages' = <<>> /\ pc' = "nvs_init"
                   /\ ((lcdInit = "fail" /\ pc = "restarting") \/ pc = "wdt_panic")]_vars

C15_Witness == pc = "wdt_panic" /\ stages = StageOrder /\ lcdInit = "ok"

\* C16 (as stated): every tick injection is made by the render task.
C16_RenderTaskInjectsTick ==
    \A c \in uiOps : c[2] = "lv_tick_inc" => c[1] = "render"

\* C16 (amended): a period of the render task is one lv_task_handler call,
\* after which it yields; it injects no tick: ticks come from the esp_timer
\* callback only.
C16_TimerTicksRenderProcesses ==
    /\ [](\A c \in uiOps : /\ c[2] = "lv_tick_inc" => c[1] = "timer"
                           /\ c[2] \in {"lv_task_handler", "flush_cb"} => c[1] = "render")
    /\ [][(renderPc = "ready" /\ renderPc' \notin {"ready", "none"})
             => (renderPc' = "handling" /\ <<"render", "lv_task_handler">> \in uiOps')]_vars
    /\ [][(renderPc' = "ready" /\ renderPc # "ready")
             => (renderPc \in {"handling", "none"} /\ uiOps' = uiOps)]_vars

C16_Witness ==
    /\ renderPc = "ready" /\ flushLog # <<>>
    /\ <<"timer", "lv_tick_inc">> \in uiOps /\ <<"render", "lv_task_handler">> \in uiOps

\* C17: after the boot-time wait has timed out the handler stays
\* registered; each later Disconnected event issues a connect() and a later
\* IPAcquired event sets wifi_connected.
C17_RetriesAfterTimeout ==
    /\ [](wifiTimeoutLogged => handlersRegistered)
    /\ [][(wifiTimeoutLogged /\ Handles("WIFI_EVENT_STA_DISCONNECTED"))
             => connectCalls' = connectCalls + 1]_vars
    /\ [][(wifiTimeoutLogged /\ Handles("IP_EVENT_STA_GOT_IP")) => wifi_connected']_vars
    /\ []((wifiTimeoutLogged /\ Alive /\ eventsHandled < MaxEvents)
             => ENABLED wifi_event_handler)

C17_Witness ==
    /\ wifiTimeoutLogged /\ wifi_connected /\ WIFI_CONNECTED_BIT \in eventBits
    /\ connectCalls = 1 /\ eventsHandled = 2 /\ lastEvent = "IP_EVENT_STA_GOT_IP"

\* C18: IPAcquired handled while Connecting gives Connected and sets the
\* connected bit; a boot sequence waiting on the bit then spends no more
\* time in the wait and leaves it for the Pairing stage without a timeout.
C18_GotIpReleasesWaiter ==
    /\ [][(Handles("IP_EVENT_STA_GOT_IP") /\ ConnState = "Connecting")
             => (ConnState' = "Connected" /\ WIFI_CONNECTED_BIT \in eventBits')]_vars
    /\ [][(pc = "wifi_wait" /\ WIFI_CONNECTED_BIT \in eventBits)
             => /\ pc' = pc => waitElapsed' = waitElapsed
                /\ pc' # pc => (pc' = "bt_init" /\ ~wifiTimeoutLogged')]_vars
    /\ []((pc = "wifi_wait" /\ WIFI_CONNECTED_BIT \in eventBits) => ENABLED WaitBitsReturn)

C18_Witness ==
    /\ pc = "bt_init" /\ ~wifiTimeoutLogged /\ wifi_connected
    /\ connectCalls = 1 /\ eventsHandled = 2 /\ lastEvent = "IP_EVENT_STA_GOT_IP"

\* C19 (as stated): once boot is done no readiness flag changes.
C19_FlagsFrozenAfterBoot ==
    [][(BootDone /\ BootDone')
          => UNCHANGED <<sdLog, lcdInit, wifi_connected, ntpStarted, bt_enabled>>]_vars

\* C19 (amended): once boot is done bt_enabled and the storage, display and
\* time-sync outcomes do not change; wifi_connected does, and only in a
\* step of the link-event handler.
C19_OnlyHandlerWritesWifiFlag ==
    /\ [][(BootDone /\ BootDone') => UNCHANGED <<sdLog, lcdInit, ntpStarted, bt_enabled>>]_vars
    /\ [][(wifi_connected' # wifi_connected /\ pc' # "nvs_init")
             => (eventsHandled' = eventsHandled + 1 /\ pc' = pc)]_vars

C19_Witness ==
    /\ BootDone /\ wdtResetBy = {"main"} /\ bt_enabled
    /\ wifiTimeoutLogged /\ wifi_connected /\ eventsHandled = 1

\* C20: by the time the radio is started the credentials have been read
\* from the config store, exactly once.
C20_CredentialsReadOnce ==
    handlersRegistered => CredentialReads = 1

\* C21: UI-engine operations other than tick injection are never made by
\* two contexts at once: the main task has made all its UI calls before the
\* render task exists, and from then on every such call is made by the
\* render task, from inside lv_task_handler.
C21_UICallsSerialised ==
    /\ [](renderTaskStarted => MainUICalls \subseteq uiOps)
    /\ [](renderPc # "none" => pc \in {"wdt_arm", "loop_delay", "wdt_reset", "wdt_panic"})
    /\ [][\A c \in uiOps' \ uiOps : c[2] # "lv_tick_inc" =>
              IF renderTaskStarted
                 THEN /\ c[1] = "render"
                      /\ c[2] = "lv_task_handler" \/ renderPc = "handling"
                 ELSE c[1] = "main" /\ renderPc = "none"]_vars

C21_Witness ==
    /\ pc = "loop_delay" /\ renderPc = "pushed" /\ MainUICalls \subseteq uiOps
    /\ <<"render", "update_status_bar">> \in uiOps /\ <<"render", "flush_cb">> \in uiOps

\* C22: after any sequence of link events, each handled to completion,
\* wifi_connected implies that WIFI_CONNECTED_BIT is set; within a run the
\* bit, once set, is never cleared.
C22_FlagImpliesBit ==
    /\ [](wifi_connected => WIFI_CONNECTED_BIT \in eventBits)
    /\ [][(WIFI_CONNECTED_BIT \in eventBits /\ pc' # "nvs_init")
             => WIFI_CONNECTED_BIT \in eventBits']_vars

C22_Witness ==
    /\ wifi_connected /\ WIFI_CONNECTED_BIT \in eventBits /\ wifiTimeoutLogged
    /\ eventsHandled = 2 /\ lastEvent = "IP_EVENT_STA_GOT_IP" /\ pc = "loop_delay"

\* the converse of C22 fails: bit set, flag cleared by a Disconnected event
C22_ConverseFails ==
    /\ ~wifi_connected /\ WIFI_CONNECTED_BIT \in eventBits
    /\ lastEvent = "WIFI_EVENT_STA_DISCONNECTED"

====
